---- MODULE Spec2Model ----
(***************************************************************************)
(* Model of ext/mxnet/symbol.c: MXNet::Symbol#bind (symbol_bind) and its   *)
(* helper get_ndarray_inputs.                                              *)
(*                                                                         *)
(* One call of bind is modelled as a state machine whose program counter   *)
(* walks the statements of symbol_bind in source order.  rb_raise and a    *)
(* failing CHECK_CALL leave the function at once (pc = "raised").          *)
(*                                                                         *)
(* Ruby VALUEs are records whose single field name is the type tag, so     *)
(* that RB_TYPE_P / rb_obj_is_kind_of become tests on the record's DOMAIN. *)
(***************************************************************************)
EXTENDS Integers, Sequences, FiniteSets, TLC

(***************************************************************************)
(* Bounds of the model.                                                    *)
(***************************************************************************)
\* largest number of arguments MXSymbolListArguments reports
MaxArgs == 2
\* largest number of auxiliary states MXSymbolListAuxiliaryStates reports
MaxAux == 1

(***************************************************************************)
(* Ruby values.                                                            *)
(***************************************************************************)
Qundef == [undef |-> TRUE]
Qnil == [nil |-> TRUE]
Sym(s) == [sym |-> s]
Str(s) == [str |-> s]
Fixnum(n) == [int |-> n]
Ary(s) == [ary |-> s]
Hash(p) == [hash |-> p]
NDArray(h) == [ndarray |-> h]
Context(t, i) == [dev_type |-> t, dev_id |-> i]
Executor(h) == [executor |-> h]
Object == [object |-> "Object"]

NIL_P(v) == "nil" \in DOMAIN v
IsUndef(v) == "undef" \in DOMAIN v
IsArray(v) == "ary" \in DOMAIN v
IsHash(v) == "hash" \in DOMAIN v
IsSymbol(v) == "sym" \in DOMAIN v
IsString(v) == "str" \in DOMAIN v
IsInteger(v) == "int" \in DOMAIN v
IsNDArray(v) == "ndarray" \in DOMAIN v
IsContext(v) == "dev_type" \in DOMAIN v

\* a C local that has not been assigned yet, or an argument of the call
\* that no statement has read yet
Unset == [unset |-> TRUE]

RARRAY_LEN(a) == Len(a.ary)
RARRAY_AREF(a, i) == a.ary[i]
rb_ary_push(a, v) == Ary(Append(a.ary, v))
RHASH_SIZE(h) == Len(h.hash)

\* the NULL pointer
NULL == 0

\* mxnet_get_handle: the native handle stored in a wrapper object
mxnet_get_handle(v) ==
    IF IsNDArray(v) THEN v.ndarray ELSE v.executor

\* rb_hash_lookup2(hash, key, def): the value stored under key, def when
\* the hash has no such key.  A hash is its list of <<key, value>> pairs
\* in enumeration (insertion) order; keys are unique.
rb_hash_lookup2(h, key, def) ==
    LET at == {j \in 1..Len(h.hash) : h.hash[j][1] = key}
    IN  IF at = {} THEN def ELSE h.hash[CHOOSE j \in at : TRUE][2]

rb_hash_lookup(h, key) == rb_hash_lookup2(h, key, Qnil)

(***************************************************************************)
(* Exceptions: the class, the format string (its conversions written as    *)
(* <...>), and the values formatted into it (arg_key, and the name of the  *)
(* missing key).                                                           *)
(***************************************************************************)
NoError == [kind |-> "", text |-> "", role |-> "", name |-> ""]
Error(kind, text, role, name) ==
    [kind |-> kind, text |-> text, role |-> role, name |-> name]

(***************************************************************************)
(* get_ndarray_inputs (symbol.c 161-215).                                  *)
(* The result records whether the function returned or raised, whether the *)
(* ALLOC_N of the handle array had happened by then, and on return the     *)
(* array of NDArrays and the handle array stored through out_handles.      *)
(***************************************************************************)
Raised(err, alloc) ==
    [ok |-> FALSE, err |-> err, alloc |-> alloc, arrays |-> Qundef, handles |-> <<>>]
Returned(arrays, handles) ==
    [ok |-> TRUE, err |-> NoError, alloc |-> TRUE, arrays |-> arrays, handles |-> handles]

\* line 172: the length test of the Array form
LengthMismatchLonger(args, arg_names) ==
    RARRAY_LEN(args) > RARRAY_LEN(arg_names)
LengthMismatch(args, arg_names) ==
    RARRAY_LEN(args) # RARRAY_LEN(arg_names)

\* lines 176-182: the loop of the Array form, from index i on
ArrayLoopUnchecked(args, i, arg_handles) ==
    [ok |-> TRUE, err |-> NoError, alloc |-> TRUE, arrays |-> args,
     handles |-> [k \in 1..RARRAY_LEN(args) |->
                    IF IsNDArray(RARRAY_AREF(args, k))
                    THEN mxnet_get_handle(RARRAY_AREF(args, k)) ELSE NULL]]
RECURSIVE ArrayLoop(_, _, _)
ArrayLoop(args, i, arg_handles) ==
    IF i > RARRAY_LEN(args)
    THEN Returned(args, arg_handles)
    ELSE LET ndary == RARRAY_AREF(args, i)
         IN  IF ~IsNDArray(ndary)
             THEN Raised(Error("TypeError",
                     "Only accept Array of NDArrays or Hash of Symbol to NDArray", "", ""),
                     TRUE)
             ELSE ArrayLoop(args, i + 1, Append(arg_handles, mxnet_get_handle(ndary)))

\* lines 191-192: the entry of the Hash form for the i-th name
HashFetchByPosition(args, arg_names, i) ==
    IF i <= RHASH_SIZE(args) THEN args.hash[i][2] ELSE Qundef
HashFetch(args, arg_names, i) ==
    rb_hash_lookup2(args, RARRAY_AREF(arg_names, i), Qundef)

\* lines 200-206: a name the hash does not hold
MissingAlwaysAllowed(arg_key, name, allow_missing) ==
    [raise |-> FALSE, err |-> NoError]
MissingEntry(arg_key, name, allow_missing) ==
    IF allow_missing
    THEN [raise |-> FALSE, err |-> NoError]
    ELSE [raise |-> TRUE,
          err |-> Error("ArgumentError", "key <name> is missing in <arg_key>", arg_key, name.sym)]

\* lines 189-207: the loop of the Hash form, from index i on
RECURSIVE HashLoop(_, _, _, _, _, _, _)
HashLoop(arg_key, args, arg_names, allow_missing, i, arg_handles, arg_arrays) ==
    IF i > RARRAY_LEN(arg_names)
    THEN Returned(arg_arrays, arg_handles)
    ELSE LET name == RARRAY_AREF(arg_names, i)
             ndary == HashFetch(args, arg_names, i)
             miss == MissingEntry(arg_key, name, allow_missing)
         IN  IF ~IsUndef(ndary)
             THEN IF ~IsNDArray(ndary)
                  THEN Raised(Error("TypeError",
                          "Only accept array of NDArrays or hash of Symbol to NDArray", "", ""),
                          TRUE)
                  ELSE HashLoop(arg_key, args, arg_names, allow_missing, i + 1,
                                Append(arg_handles, mxnet_get_handle(ndary)),
                                rb_ary_push(arg_arrays, ndary))
             ELSE IF miss.raise
                  THEN Raised(miss.err, TRUE)
                  ELSE HashLoop(arg_key, args, arg_names, allow_missing, i + 1,
                                Append(arg_handles, NULL),
                                rb_ary_push(arg_arrays, Qnil))

get_ndarray_inputs(arg_key, args, arg_names, allow_missing) ==
    IF IsArray(args)
    THEN IF LengthMismatch(args, arg_names)
         THEN Raised(Error("ArgumentError",
                 "Length of <arg_key> does not match the number of arguments", arg_key, ""),
                 FALSE)
         ELSE ArrayLoop(args, 1, <<>>)
    ELSE IF IsHash(args)
    THEN HashLoop(arg_key, args, arg_names, allow_missing, 1, <<>>, Ary(<<>>))
    ELSE Raised(Error("TypeError",
            "Only accept Array of NDArrays or Hash of Symbol to NDArray", "", ""),
            FALSE)

(***************************************************************************)
(* Gradient requirements (symbol.c 317-360).                               *)
(***************************************************************************)
\* mxnet_grad_req_map(): the Hash of requirement labels to their codes; it is
\* built outside symbol.c, and is given here the labels null, write and add
mxnet_grad_req_map ==
    Hash(<< <<Sym("null"), Fixnum(0)>>, <<Sym("write"), Fixnum(1)>>,
            <<Sym("add"), Fixnum(3)>> >>)

\* NUM2UINT: an Integer converts (the codes of the model all fit mx_uint),
\* anything else (nil, a Symbol) raises TypeError
NUM2UINT(v) ==
    IF IsInteger(v)
    THEN [ok |-> TRUE, val |-> v.int]
    ELSE [ok |-> FALSE, val |-> 0]

ReqRaised(err) == [ok |-> FALSE, err |-> err, grad_req |-> Qundef, reqs_array |-> <<>>]
ReqReturned(grad_req, reqs) ==
    [ok |-> TRUE, err |-> NoError, grad_req |-> grad_req, reqs_array |-> reqs]

\* lines 317-322: the default and the String form
DefaultGradReqNull(grad_req) ==
    LET g == IF IsUndef(grad_req) THEN Sym("null") ELSE grad_req
    IN  IF IsString(g) THEN Sym(g.str) ELSE g
DefaultGradReq(grad_req) ==
    LET g == IF IsUndef(grad_req) THEN Sym("write") ELSE grad_req
    IN  IF IsString(g) THEN Sym(g.str) ELSE g

\* lines 341-345: the loop of the Array form
RECURSIVE ArrayReqs(_, _, _)
ArrayReqs(grad_req, i, reqs) ==
    IF i > RARRAY_LEN(grad_req)
    THEN ReqReturned(grad_req, reqs)
    ELSE LET item == RARRAY_AREF(grad_req, i)
             req == NUM2UINT(rb_hash_lookup(mxnet_grad_req_map, item))
         IN  IF ~req.ok
             THEN ReqRaised(Error("TypeError", "no implicit conversion into Integer", "", ""))
             ELSE ArrayReqs(grad_req, i + 1, Append(reqs, req.val))

\* line 352: the code of one argument in the Hash form
HashReqStrict(grad_req, name) ==
    NUM2UINT(rb_hash_lookup2(grad_req, name, Qnil))
HashReq(grad_req, name) ==
    NUM2UINT(rb_hash_lookup2(grad_req, name, Fixnum(0)))

\* lines 350-354: the loop of the Hash form
RECURSIVE HashReqs(_, _, _, _)
HashReqs(grad_req, listed_arguments, i, reqs) ==
    IF i > RARRAY_LEN(listed_arguments)
    THEN ReqReturned(grad_req, reqs)
    ELSE LET name == RARRAY_AREF(listed_arguments, i)
             req == HashReq(grad_req, name)
         IN  IF ~req.ok
             THEN ReqRaised(Error("TypeError", "no implicit conversion into Integer", "", ""))
             ELSE HashReqs(grad_req, listed_arguments, i + 1, Append(reqs, req.val))

\* lines 324-337: the Symbol form
SymbolReqs(grad_req, listed_arguments) ==
    IF IsUndef(rb_hash_lookup2(mxnet_grad_req_map, grad_req, Qundef))
    THEN ReqRaised(Error("ArgumentError", "grad_req must be in <grad_req_map>", "grad_req", ""))
    ELSE LET req == NUM2UINT(rb_hash_lookup(mxnet_grad_req_map, grad_req))
         IN  ReqReturned(grad_req, [i \in 1..RARRAY_LEN(listed_arguments) |-> req.val])

\* lines 317-360
resolve_grad_req(grad_req_in, listed_arguments) ==
    LET grad_req == DefaultGradReq(grad_req_in)
    IN  IF IsSymbol(grad_req)
        THEN SymbolReqs(grad_req, listed_arguments)
        ELSE IF IsArray(grad_req)
        THEN ArrayReqs(grad_req, 1, <<>>)
        ELSE IF IsHash(grad_req)
        THEN HashReqs(grad_req, listed_arguments, 1, <<>>)
        ELSE ReqRaised(Error("ArgumentError",
                "Invalid type of grad_req (<class> for Symbol, Array, or Hash)", "grad_req", ""))

(***************************************************************************)
(* Device groups (symbol.c 217-239, 362-388).                              *)
(***************************************************************************)
\* symbol_bind_group2ctx_process_i on the pair at the cursor
group2ctx_process_i(pair) ==
    LET key == IF IsSymbol(pair[1]) THEN Str(pair[1].sym) ELSE pair[1]
    IN  [key |-> key.str, dev_type |-> pair[2].dev_type, dev_id |-> pair[2].dev_id]

\* lines 366-387: rb_hash_foreach fills the three arrays in enumeration order
resolve_group2ctx(group2ctx) ==
    IF ~NIL_P(group2ctx)
    THEN LET n == RHASH_SIZE(group2ctx)
         IN  [num_ctx_map_keys |-> n,
              ctx_map_keys |-> [i \in 1..n |-> group2ctx_process_i(group2ctx.hash[i]).key],
              ctx_map_dev_types |-> [i \in 1..n |-> group2ctx_process_i(group2ctx.hash[i]).dev_type],
              ctx_map_dev_ids |-> [i \in 1..n |-> group2ctx_process_i(group2ctx.hash[i]).dev_id]]
    ELSE [num_ctx_map_keys |-> 0, ctx_map_keys |-> <<>>,
          ctx_map_dev_types |-> <<>>, ctx_map_dev_ids |-> <<>>]

(***************************************************************************)
(* The inputs of one call.                                                 *)
(***************************************************************************)
\* the sequences over S of length at most n
RECURSIVE SeqsUpTo(_, _)
SeqsUpTo(S, n) ==
    IF n = 0
    THEN {<<>>}
    ELSE LET shorter == SeqsUpTo(S, n - 1)
         IN  shorter \cup {Append(t, x) : t \in shorter, x \in S}

\* the lists of <<key, value>> pairs with distinct keys: every Hash with at
\* most n entries, in every enumeration order
Pairs(K, V, n) ==
    {p \in SeqsUpTo(K \X V, n) :
        \A i, j \in 1..Len(p) : i # j => p[i][1] # p[j][1]}

\* the same, in one enumeration order only (keys ascending in names)
RECURSIVE SortedPairs(_, _)
SortedPairs(names, V) ==
    IF names = <<>>
    THEN {<<>>}
    ELSE LET rest == SortedPairs(Tail(names), V)
         IN  rest \cup {<< <<Head(names), v>> >> \o p : v \in V, p \in rest}

ArgumentNames == <<Sym("a"), Sym("b"), Sym("c"), Sym("d")>>
AuxiliaryNames == <<Sym("m"), Sym("v"), Sym("w")>>
Range(s) == {s[i] : i \in 1..Len(s)}

\* the graphs: what the engine lists for the Symbol
Symbols ==
    {[arguments |-> SubSeq(ArgumentNames, 1, n),
      auxiliary_states |-> SubSeq(AuxiliaryNames, 1, m)] :
        n \in 0..MaxArgs, m \in 0..MaxAux}

\* what a caller may pass where NDArrays are expected: an Array, a Hash,
\* or something else
Bindings(names, tensors, n) ==
    {Ary(s) : s \in SeqsUpTo(tensors \cup {Object}, n)}
    \cup {Hash(p) : p \in Pairs(Range(names), tensors \cup {Object}, n)}
    \cup {Object}

CtxInputs == {Context(1, 0), Object}
ArgsInputs ==
    Bindings(SubSeq(ArgumentNames, 1, MaxArgs), {NDArray(1), NDArray(2)}, MaxArgs)
ArgsGradInputs ==
    Bindings(SubSeq(ArgumentNames, 1, MaxArgs), {NDArray(3)}, MaxArgs)
    \cup {Qundef, Qnil}
AuxStatesInputs ==
    Bindings(SubSeq(AuxiliaryNames, 1, MaxAux), {NDArray(4)}, MaxAux)
    \cup {Qundef, Qnil}
GradReqInputs ==
    {Qundef, Qnil, Sym("write"), Sym("add"), Sym("bogus"), Str("null"), Str("bogus")}
    \cup {Ary(s) : s \in SeqsUpTo({Sym("add"), Sym("bogus")}, MaxArgs)}
    \cup {Hash(p) : p \in SortedPairs(SubSeq(ArgumentNames, 1, MaxArgs),
                                      {Fixnum(1), Sym("write")})}
Group2CtxInputs ==
    {Qundef, Object,
     Hash(<< <<Sym("dev1"), Context(2, 0)>>, <<Str("dev2"), Context(1, 0)>> >>)}
SharedExecInputs == {Qundef, Executor(9)}

\* what the engine may find in memory past the end of a buffer
Garbage == {0, 255}

\* the statements of symbol_bind that can raise, in source order
Steps ==
    <<"context", "list_arguments", "args", "args_grad", "list_auxiliary_states",
      "aux_states", "grad_req", "group2ctx", "shared_exec", "bind", "executor", "free">>
Fallible ==
    {"context", "list_arguments", "args", "args_grad", "list_auxiliary_states",
     "aux_states", "grad_req", "group2ctx", "bind"}

Buffers == {"args_handle", "args_grad_handle", "aux_args_handle"}

(***************************************************************************)
(* State of one call of symbol_bind.                                       *)
(***************************************************************************)
VARIABLES
    pc,                   \* the statement the call is at, "raised" or "done"
    obj,                  \* the Symbol bind is called on
    invalid,              \* a step known from the start to fail when reached (at most one)
    ctx, args, args_grad, aux_states, grad_req, group2ctx, shared_exec,
    listed_arguments,
    args_handle, args_grad_handle, aux_args_handle,
    args_grad_handle_str, \* the tmp String holding args_grad_handle, or Qundef
    reqs_array,
    ctx_map,              \* num_ctx_map_keys, ctx_map_keys, ctx_map_dev_types, ctx_map_dev_ids
    shared_exec_handle, exec_handle,
    bind_call,            \* the arguments MXExecutorBindEX was called with
    executor,             \* the return value
    executors,            \* the Execution objects constructed so far
    heap,                 \* state of each xmalloc'ed handle array
    calls,                \* the native entry points called so far
    trace,                \* the steps executed so far
    err,                  \* the exception raised
    raw                   \* the argument read by the latest step, as the caller passed it

inputs == <<ctx, args, args_grad, aux_states, grad_req, group2ctx, shared_exec>>
locals ==
    <<listed_arguments, args_handle, args_grad_handle, aux_args_handle,
      args_grad_handle_str, reqs_array, ctx_map, shared_exec_handle, exec_handle>>
vars ==
    <<pc, obj, invalid, inputs, locals, bind_call, executor, executors,
      heap, calls, trace, err, raw>>

Init ==
    /\ pc = "context"
    /\ obj \in Symbols
    /\ invalid \in {{}} \cup {{s} : s \in Fallible}
    /\ ctx = Unset /\ args = Unset /\ args_grad = Unset /\ aux_states = Unset
    /\ grad_req = Unset /\ group2ctx = Unset /\ shared_exec = Unset
    /\ listed_arguments = Unset
    /\ args_handle = Unset /\ args_grad_handle = Unset /\ aux_args_handle = Unset
    /\ args_grad_handle_str = Unset /\ reqs_array = Unset /\ ctx_map = Unset
    /\ shared_exec_handle = Unset /\ exec_handle = Unset
    /\ bind_call = Unset
    /\ executor = Unset
    /\ executors = <<>>
    /\ heap = [b \in Buffers |-> "none"]
    /\ calls = <<>>
    /\ trace = <<>>
    /\ err = NoError
    /\ raw = Unset

\* The arguments of the call are read where the code first uses them, and
\* each may be any value of its domain; invalid commits the call, from the
\* start, to an input (or an engine answer) that makes the named step fail.
Chosen(step, fails) == (step \in invalid) => fails

\* rb_raise / CHECK_CALL: control leaves symbol_bind
Raise(e) == pc' = "raised" /\ err' = e

Goto(next) == pc' = next /\ err' = err

\* the statement that follows a step that returned
Index(step) == CHOOSE i \in 1..Len(Steps) : Steps[i] = step
AfterSwapped(step) ==
    IF step = "aux_states" THEN "group2ctx"
    ELSE IF step = "group2ctx" THEN "grad_req"
    ELSE IF step = "grad_req" THEN "shared_exec"
    ELSE IF step = "free" THEN "done" ELSE Steps[Index(step) + 1]
After(step) ==
    IF step = "free" THEN "done" ELSE Steps[Index(step) + 1]

\* CHECK_CALL: a native call that reports failure raises the engine's error
CheckCallIgnored(fails, name, step) ==
    IF fails /\ step # "bind" THEN Raise(Error("MXNetError", name, "", "")) ELSE Goto(After(step))
CheckCall(fails, name, step) ==
    IF fails THEN Raise(Error("MXNetError", name, "", "")) ELSE Goto(After(step))

\* ALLOC_N
xmalloc(h, b) == [h EXCEPT ![b] = "live"]
\* xfree
xfree(h, b) == [h EXCEPT ![b] = IF h[b] = "live" THEN "freed" ELSE "bad_free"]

(***************************************************************************)
(* The steps of symbol_bind (symbol.c 241-432).                            *)
(***************************************************************************)
\* lines 283-285
CheckContext ==
    /\ pc = "context"
    /\ \E c \in CtxInputs :
        /\ Chosen("context", ~IsContext(c))
        /\ ctx' = c /\ raw' = c
        /\ IF ~IsContext(c)
           THEN Raise(Error("TypeError", "Context type error", "", ""))
           ELSE Goto(After("context"))
    /\ trace' = Append(trace, "context")
    /\ UNCHANGED <<obj, invalid, args, args_grad, aux_states, grad_req, group2ctx,
                   shared_exec, locals, bind_call, executor, executors, heap, calls>>

\* line 287: symbol_list_arguments (49-66)
ListArguments ==
    /\ pc = "list_arguments"
    /\ calls' = Append(calls, "MXSymbolListArguments")
    /\ \E fails \in BOOLEAN :
        /\ Chosen("list_arguments", fails)
        /\ CheckCall(fails, "MXSymbolListArguments", "list_arguments")
        /\ listed_arguments' = IF fails THEN listed_arguments ELSE Ary(obj.arguments)
    /\ trace' = Append(trace, "list_arguments")
    /\ UNCHANGED <<obj, invalid, inputs, args_handle, args_grad_handle, aux_args_handle,
                   args_grad_handle_str, reqs_array, ctx_map, shared_exec_handle,
                   exec_handle, bind_call, executor, executors, heap, raw>>

\* line 288
ResolveArgs ==
    /\ pc = "args"
    /\ \E a \in ArgsInputs :
        LET r == get_ndarray_inputs("args", a, listed_arguments, FALSE)
        IN  /\ Chosen("args", ~r.ok)
            /\ raw' = a
            /\ heap' = IF r.alloc THEN xmalloc(heap, "args_handle") ELSE heap
            /\ IF r.ok
               THEN args' = r.arrays /\ args_handle' = r.handles /\ Goto(After("args"))
               ELSE args' = a /\ args_handle' = args_handle /\ Raise(r.err)
    /\ trace' = Append(trace, "args")
    /\ UNCHANGED <<obj, invalid, ctx, args_grad, aux_states, grad_req, group2ctx,
                   shared_exec, listed_arguments, args_grad_handle, aux_args_handle,
                   args_grad_handle_str, reqs_array, ctx_map, shared_exec_handle,
                   exec_handle, bind_call, executor, executors, calls>>

\* lines 291-304
ResolveArgsGrad ==
    /\ pc = "args_grad"
    /\ \E g \in ArgsGradInputs :
        LET given == IF IsUndef(g) THEN Qnil ELSE g
            r == get_ndarray_inputs("args_grad", given, listed_arguments, TRUE)
        IN  /\ raw' = g
            /\ IF NIL_P(given)
               THEN /\ Chosen("args_grad", FALSE)
                    /\ args_grad' = given
                    /\ args_grad_handle_str' = Str("tmp")
                    /\ args_grad_handle' = [i \in 1..RARRAY_LEN(args) |-> NULL]
                    /\ heap' = heap
                    /\ Goto(After("args_grad"))
               ELSE /\ Chosen("args_grad", ~r.ok)
                    /\ heap' = IF r.alloc THEN xmalloc(heap, "args_grad_handle") ELSE heap
                    /\ IF r.ok
                       THEN /\ args_grad' = r.arrays
                            /\ args_grad_handle' = r.handles
                            /\ args_grad_handle_str' = Qundef
                            /\ Goto(After("args_grad"))
                       ELSE /\ args_grad' = given
                            /\ args_grad_handle' = args_grad_handle
                            /\ args_grad_handle_str' = args_grad_handle_str
                            /\ Raise(r.err)
    /\ trace' = Append(trace, "args_grad")
    /\ UNCHANGED <<obj, invalid, ctx, args, aux_states, grad_req, group2ctx,
                   shared_exec, listed_arguments, args_handle, aux_args_handle,
                   reqs_array, ctx_map, shared_exec_handle, exec_handle, bind_call,
                   executor, executors, calls>>

\* line 313: symbol_list_auxiliary_states (96-113), evaluated as an argument
\* of the call of get_ndarray_inputs; its result is held in raw until then
ListAuxiliaryStates ==
    /\ pc = "list_auxiliary_states"
    /\ calls' = Append(calls, "MXSymbolListAuxiliaryStates")
    /\ \E fails \in BOOLEAN :
        /\ Chosen("list_auxiliary_states", fails)
        /\ CheckCall(fails, "MXSymbolListAuxiliaryStates", "list_auxiliary_states")
    /\ trace' = Append(trace, "list_auxiliary_states")
    /\ UNCHANGED <<obj, invalid, inputs, locals, bind_call, executor, executors,
                   heap, raw>>

\* lines 306-314
ResolveAuxStates ==
    /\ pc = "aux_states"
    /\ \E s \in AuxStatesInputs :
        LET given == IF IsUndef(s) \/ NIL_P(s) THEN Ary(<<>>) ELSE s
            r == get_ndarray_inputs("aux_states", given, Ary(obj.auxiliary_states), FALSE)
        IN  /\ Chosen("aux_states", ~r.ok)
            /\ raw' = s
            /\ heap' = IF r.alloc THEN xmalloc(heap, "aux_args_handle") ELSE heap
            /\ IF r.ok
               THEN /\ aux_states' = r.arrays
                    /\ aux_args_handle' = r.handles
                    /\ Goto(After("aux_states"))
               ELSE /\ aux_states' = given
                    /\ aux_args_handle' = aux_args_handle
                    /\ Raise(r.err)
    /\ trace' = Append(trace, "aux_states")
    /\ UNCHANGED <<obj, invalid, ctx, args, args_grad, grad_req, group2ctx,
                   shared_exec, listed_arguments, args_handle, args_grad_handle,
                   args_grad_handle_str, reqs_array, ctx_map, shared_exec_handle,
                   exec_handle, bind_call, executor, executors, calls>>

\* lines 317-360
ResolveGradReq ==
    /\ pc = "grad_req"
    /\ \E q \in GradReqInputs :
        LET r == resolve_grad_req(q, listed_arguments)
        IN  /\ Chosen("grad_req", ~r.ok)
            /\ raw' = q
            /\ IF r.ok
               THEN /\ grad_req' = r.grad_req
                    /\ reqs_array' = r.reqs_array
                    /\ Goto(After("grad_req"))
               ELSE /\ grad_req' = DefaultGradReq(q)
                    /\ reqs_array' = reqs_array
                    /\ Raise(r.err)
    /\ trace' = Append(trace, "grad_req")
    /\ UNCHANGED <<obj, invalid, ctx, args, args_grad, aux_states, group2ctx,
                   shared_exec, listed_arguments, args_handle, args_grad_handle,
                   aux_args_handle, args_grad_handle_str, ctx_map, shared_exec_handle,
                   exec_handle, bind_call, executor, executors, heap, calls>>

\* lines 362-388
ResolveGroup2Ctx ==
    /\ pc = "group2ctx"
    /\ \E g \in Group2CtxInputs :
        LET given == IF IsUndef(g) THEN Qnil ELSE g
        IN  /\ Chosen("group2ctx", ~NIL_P(given) /\ ~IsHash(given))
            /\ raw' = g
            /\ group2ctx' = given
            /\ IF ~NIL_P(given) /\ ~IsHash(given)
               THEN /\ ctx_map' = ctx_map
                    /\ Raise(Error("TypeError", "wrong argument type (expected Hash)",
                                   "group2ctx", ""))
               ELSE /\ ctx_map' = resolve_group2ctx(given)
                    /\ Goto(After("group2ctx"))
    /\ trace' = Append(trace, "group2ctx")
    /\ UNCHANGED <<obj, invalid, ctx, args, args_grad, aux_states, grad_req,
                   shared_exec, listed_arguments, args_handle, args_grad_handle,
                   aux_args_handle, args_grad_handle_str, reqs_array,
                   shared_exec_handle, exec_handle, bind_call, executor, executors,
                   heap, calls>>

\* lines 390-398
ResolveSharedExec ==
    /\ pc = "shared_exec"
    /\ \E s \in SharedExecInputs :
        LET given == IF IsUndef(s) THEN Qnil ELSE s
        IN  /\ raw' = s
            /\ shared_exec' = given
            /\ shared_exec_handle' =
                 IF ~NIL_P(given) THEN mxnet_get_handle(given) ELSE NULL
    /\ Goto(After("shared_exec"))
    /\ trace' = Append(trace, "shared_exec")
    /\ UNCHANGED <<obj, invalid, ctx, args, args_grad, aux_states, grad_req, group2ctx,
                   listed_arguments, args_handle, args_grad_handle, aux_args_handle,
                   args_grad_handle_str, reqs_array, ctx_map, exec_handle, bind_call,
                   executor, executors, heap, calls>>

\* what the engine reads as the requirement codes: num_args entries starting
\* at reqs_array; an entry past the end of the buffer holds anything
ReqsRead(num_args, reqs, past) ==
    [i \in 1..num_args |-> IF i <= Len(reqs) THEN reqs[i] ELSE past[i]]

\* lines 400-416: CHECK_CALL(MXExecutorBindEX(...))
NativeBind ==
    /\ pc = "bind"
    /\ calls' = Append(calls, "MXExecutorBindEX")
    /\ \E past \in [1..RARRAY_LEN(args) -> Garbage] :
        /\ \A i \in 1..RARRAY_LEN(args) : i <= Len(reqs_array) => past[i] = 0
        /\ bind_call' =
             [dev_type |-> ctx.dev_type, dev_id |-> ctx.dev_id,
              num_ctx_map_keys |-> ctx_map.num_ctx_map_keys,
              ctx_map_keys |-> ctx_map.ctx_map_keys,
              ctx_map_dev_types |-> ctx_map.ctx_map_dev_types,
              ctx_map_dev_ids |-> ctx_map.ctx_map_dev_ids,
              num_args |-> RARRAY_LEN(args),
              args_handle |-> args_handle,
              args_grad_handle |-> args_grad_handle,
              reqs_array |-> reqs_array,
              reqs_read |-> ReqsRead(RARRAY_LEN(args), reqs_array, past),
              num_aux |-> RARRAY_LEN(aux_states),
              aux_args_handle |-> aux_args_handle,
              shared_exec_handle |-> shared_exec_handle]
    /\ \E fails \in BOOLEAN :
        /\ Chosen("bind", fails)
        /\ CheckCall(fails, "MXExecutorBindEX", "bind")
        /\ exec_handle' = IF fails THEN exec_handle ELSE 7
    /\ trace' = Append(trace, "bind")
    /\ UNCHANGED <<obj, invalid, inputs, listed_arguments, args_handle,
                   args_grad_handle, aux_args_handle, args_grad_handle_str, reqs_array,
                   ctx_map, shared_exec_handle, executor, executors, heap, raw>>

\* lines 418-421: mxnet_executor_new and the three setters
ConstructExecutor ==
    /\ pc = "executor"
    /\ executor' =
         [handle |-> exec_handle, symbol |-> obj, ctx |-> ctx,
          grad_req |-> grad_req, group2ctx |-> group2ctx,
          arg_arrays |-> args, grad_arrays |-> args_grad, aux_arrays |-> aux_states]
    /\ executors' = Append(executors, executor')
    /\ Goto(After("executor"))
    /\ trace' = Append(trace, "executor")
    /\ UNCHANGED <<obj, invalid, inputs, locals, bind_call, heap, calls, raw>>

\* lines 425-431
FreeScratch ==
    /\ pc = "free"
    /\ heap' =
         LET h1 == xfree(heap, "args_handle")
             h2 == IF IsUndef(args_grad_handle_str)
                   THEN xfree(h1, "args_grad_handle") ELSE h1
         IN  xfree(h2, "aux_args_handle")
    /\ Goto(After("free"))
    /\ trace' = Append(trace, "free")
    /\ UNCHANGED <<obj, invalid, inputs, locals, bind_call, executor, executors,
                   calls, raw>>

Next ==
    \/ CheckContext
    \/ ListArguments
    \/ ResolveArgs
    \/ ResolveArgsGrad
    \/ ListAuxiliaryStates
    \/ ResolveAuxStates
    \/ ResolveGradReq
    \/ ResolveGroup2Ctx
    \/ ResolveSharedExec
    \/ NativeBind
    \/ ConstructExecutor
    \/ FreeScratch

Spec == Init /\ [][Next]_vars

TypeOK ==
    /\ pc \in Range(Steps) \cup {"raised", "done"}
    /\ invalid \subseteq Fallible /\ Cardinality(invalid) <= 1

(***************************************************************************)
(* Vocabulary of the properties.                                           *)
(***************************************************************************)
InputRoles == {"args", "args_grad", "aux_states"}
ResolutionSteps == {"context", "args", "args_grad", "aux_states", "grad_req", "group2ctx"}

\* the call has just executed step s (raw is the argument s read)
Just(s) == trace # <<>> /\ trace[Len(trace)] = s
Failed(s) == Just(s) /\ pc = "raised"
Passed(s) == Just(s) /\ pc # "raised"

\* the name list a role is resolved against, and what the role has resolved to
NamesOf(r) == IF r = "aux_states" THEN obj.auxiliary_states ELSE obj.arguments
AllowMissing(r) == r = "args_grad"
ResolvedOf(r) ==
    IF r = "args" THEN args ELSE IF r = "args_grad" THEN args_grad ELSE aux_states
HandlesOf(r) ==
    IF r = "args" THEN args_handle
    ELSE IF r = "args_grad" THEN args_grad_handle ELSE aux_args_handle

\* the values a Hash holds under a key, whatever its enumeration order
Under(h, key) == {p[2] : p \in {q \in Range(h.hash) : q[1] = key}}
Holds(h, key) == Under(h, key) # {}
ValueUnder(h, key) == CHOOSE v \in Under(h, key) : TRUE

Called(name) == name \in Range(calls)

(***************************************************************************)
(* C1: bind is all-or-nothing.  A call that returns has constructed        *)
(* exactly one Execution object, returns it, and has attached to it the    *)
(* resolved args / args_grad / aux_states, after exactly one successful    *)
(* MXExecutorBindEX; a call that raises has constructed none; and when a   *)
(* resolution step (context check, args, args_grad, aux_states, grad_req,  *)
(* group2ctx) fails, MXExecutorBindEX has not been called; a call whose    *)
(* input to some step is invalid never returns.                            *)
(***************************************************************************)
C1_AllOrNothing ==
    /\ Len(executors) <= 1
    /\ pc = "done" =>
         /\ Len(executors) = 1 /\ executor = executors[1]
         /\ executor.handle = exec_handle
         /\ executor.arg_arrays = args
         /\ executor.grad_arrays = args_grad
         /\ executor.aux_arrays = aux_states
         /\ Cardinality({i \in 1..Len(calls) : calls[i] = "MXExecutorBindEX"}) = 1
         /\ err = NoError
         /\ invalid = {}
    /\ pc = "raised" => executors = <<>> /\ executor = Unset /\ err # NoError
    /\ \A s \in ResolutionSteps : Failed(s) => ~Called("MXExecutorBindEX")
    /\ executors # <<>> => Called("MXExecutorBindEX") /\ invalid = {}

C1_Witness ==
    /\ pc = "done" /\ Len(executors) = 1
    /\ RARRAY_LEN(executor.arg_arrays) = 2
    /\ ~NIL_P(executor.grad_arrays)

(***************************************************************************)
(* C2: the Hash form of get_ndarray_inputs is order-independent.  When the *)
(* Hash passed for a role holds every name of the role's name list, each   *)
(* mapped to an NDArray, resolution returns; the i-th resolved element is  *)
(* the NDArray held under the i-th name and the i-th handle is its handle, *)
(* whatever the Hash's enumeration order.  The resolved args are never     *)
(* changed afterwards and are what the Execution object gets attached.     *)
(***************************************************************************)
FullHash(r) ==
    /\ IsHash(raw)
    /\ \A i \in 1..Len(NamesOf(r)) :
         Holds(raw, NamesOf(r)[i]) /\ IsNDArray(ValueUnder(raw, NamesOf(r)[i]))

C2_ByName ==
    \A r \in InputRoles :
        Just(r) /\ FullHash(r) =>
            /\ pc # "raised"
            /\ ResolvedOf(r) = Ary([i \in 1..Len(NamesOf(r)) |-> ValueUnder(raw, NamesOf(r)[i])])
            /\ HandlesOf(r) = [i \in 1..Len(NamesOf(r)) |-> ValueUnder(raw, NamesOf(r)[i]).ndarray]

\* C2: a Hash holding every listed name resolves by name, in list order,
\* whatever its enumeration order; the resolved args are final and attached
C2_MappingOrderIndependent ==
    /\ [](C2_ByName /\ (pc = "done" => executor.arg_arrays = args))
    /\ [][pc # "args" => args' = args]_vars

\* a Hash that enumerates the names in the reverse of list order, with two
\* different NDArrays, has been resolved
C2_Witness ==
    /\ Passed("args") /\ FullHash("args")
    /\ Len(obj.arguments) = 2
    /\ raw.hash[1][1] = obj.arguments[2] /\ raw.hash[2][1] = obj.arguments[1]
    /\ raw.hash[1][2] # raw.hash[2][2]

(***************************************************************************)
(* C3: the Array form of get_ndarray_inputs.  An Array whose length is the *)
(* length N of the role's name list and whose elements are all NDArrays    *)
(* resolves to the same elements in the same order, with N handles, the    *)
(* i-th being the handle of the i-th element.  An Array of any other       *)
(* length raises ArgumentError "Length of <role> does not match the number *)
(* of arguments", naming the role (args, args_grad or aux_states).         *)
(***************************************************************************)
C3_SequenceForm ==
    \A r \in InputRoles :
        Just(r) /\ IsArray(raw) =>
            /\ Len(raw.ary) # Len(NamesOf(r)) =>
                 /\ pc = "raised"
                 /\ err.kind = "ArgumentError"
                 /\ err.text = "Length of <arg_key> does not match the number of arguments"
                 /\ err.role = r
            /\ (Len(raw.ary) = Len(NamesOf(r))
                  /\ \A i \in 1..Len(raw.ary) : IsNDArray(raw.ary[i])) =>
                 /\ pc # "raised"
                 /\ ResolvedOf(r) = raw
                 /\ Len(HandlesOf(r)) = Len(NamesOf(r))
                 /\ HandlesOf(r) = [i \in 1..Len(raw.ary) |-> raw.ary[i].ndarray]

\* bind on a two-argument graph with args an Array of length 1 has raised
C3_Witness ==
    /\ Failed("args") /\ IsArray(raw)
    /\ Len(obj.arguments) = 2 /\ Len(raw.ary) = 1
    /\ err.role = "args"

(***************************************************************************)
(* C4: names the Hash does not hold.                                       *)
(***************************************************************************)
Absent(r) == {i \in 1..Len(NamesOf(r)) : ~Holds(raw, NamesOf(r)[i])}
FirstAbsent(r) == CHOOSE i \in Absent(r) : \A j \in Absent(r) : i <= j
NonTensorAt(r) ==
    {i \in 1..Len(NamesOf(r)) :
        Holds(raw, NamesOf(r)[i]) /\ ~IsNDArray(ValueUnder(raw, NamesOf(r)[i]))}

\* when resolution of a Hash returns, sequence and handles have one entry
\* per name, in list order; an absent name gives nil and NULL there, and
\* only where missing is allowed
C4_OnePerName(r) ==
    pc # "raised" =>
        /\ RARRAY_LEN(ResolvedOf(r)) = Len(NamesOf(r))
        /\ Len(HandlesOf(r)) = Len(NamesOf(r))
        /\ \A i \in 1..Len(NamesOf(r)) :
             IF i \in Absent(r)
             THEN /\ AllowMissing(r)
                  /\ ResolvedOf(r).ary[i] = Qnil
                  /\ HandlesOf(r)[i] = NULL
             ELSE /\ ResolvedOf(r).ary[i] = ValueUnder(raw, NamesOf(r)[i])
                  /\ HandlesOf(r)[i] = ValueUnder(raw, NamesOf(r)[i]).ndarray

\* with missing allowed and every held value an NDArray, resolution returns
C4_HolesAllowed(r) ==
    AllowMissing(r) /\ NonTensorAt(r) = {} => pc # "raised"

C4_MissingKeyError(r) ==
    /\ pc = "raised"
    /\ err.kind = "ArgumentError"
    /\ err.text = "key <name> is missing in <arg_key>"
    /\ err.name = NamesOf(r)[FirstAbsent(r)].sym
    /\ err.role = r

\* C4 as claimed: with missing not allowed, a Hash that lacks a name always
\* raises the missing-key error naming the first absent name and the role
C4_MissingNames ==
    \A r \in InputRoles :
        Just(r) /\ IsHash(raw) =>
            /\ C4_OnePerName(r)
            /\ C4_HolesAllowed(r)
            /\ (Absent(r) # {} /\ ~AllowMissing(r)) => C4_MissingKeyError(r)

\* C4 as amended: the missing-key error is raised unless a name earlier in
\* the list than the first absent one is held with a value that is not an
\* NDArray (the loop raises TypeError there first)
C4_MissingNamesAmended ==
    \A r \in InputRoles :
        Just(r) /\ IsHash(raw) =>
            /\ C4_OnePerName(r)
            /\ C4_HolesAllowed(r)
            /\ (Absent(r) # {} /\ ~AllowMissing(r)
                  /\ \A i \in NonTensorAt(r) : i > FirstAbsent(r)) =>
                 C4_MissingKeyError(r)
            /\ (Absent(r) # {} /\ ~AllowMissing(r)
                  /\ \E i \in NonTensorAt(r) : i < FirstAbsent(r)) =>
                 pc = "raised" /\ err.kind = "TypeError"

\* args given as a Hash that holds the first name but not the second
C4_Witness ==
    /\ Failed("args") /\ IsHash(raw)
    /\ Len(obj.arguments) = 2
    /\ Absent("args") = {2}
    /\ err.name = "b"

(***************************************************************************)
(* C5: whenever MXExecutorBindEX is called, the requirement-code array     *)
(* passed holds exactly num_args codes, num_args being the number of       *)
(* arguments of the graph.                                                 *)
(***************************************************************************)
C5_OneCodePerArgument ==
    bind_call # Unset =>
        /\ bind_call.num_args = Len(obj.arguments)
        /\ Len(bind_call.reqs_array) = bind_call.num_args

(***************************************************************************)
(* C6: uniform gradient requirement.  Without grad_req the codes are N     *)
(* times the code of "write"; with a recognized label (Symbol or String)   *)
(* they are N times that label's code; with an unrecognized label the      *)
(* step raises ArgumentError and no codes are produced.                    *)
(***************************************************************************)
CodeOf(label) == ValueUnder(mxnet_grad_req_map, Sym(label)).int
Recognized(label) == Holds(mxnet_grad_req_map, Sym(label))
Uniform(code) == [i \in 1..Len(obj.arguments) |-> code]

\* C6: absent or a recognized label gives N times one code; an unrecognized
\* label raises ArgumentError
C6_UniformGradReq ==
    Just("grad_req") =>
        /\ IsUndef(raw) => pc # "raised" /\ reqs_array = Uniform(CodeOf("write"))
        /\ IsSymbol(raw) \/ IsString(raw) =>
             LET label == IF IsSymbol(raw) THEN raw.sym ELSE raw.str
             IN  IF Recognized(label)
                 THEN pc # "raised" /\ reqs_array = Uniform(CodeOf(label))
                 ELSE pc = "raised" /\ err.kind = "ArgumentError" /\ reqs_array = Unset

C6_Witness ==
    /\ Passed("grad_req") /\ IsUndef(raw)
    /\ Len(obj.arguments) = 2
    /\ reqs_array = <<CodeOf("write"), CodeOf("write")>>

(***************************************************************************)
(* C7: lenient Hash form of grad_req.  A name of the Argument List that    *)
(* the Hash does not hold gets code 0, and never causes an error: the step *)
(* returns whenever every value the Hash holds for a listed name is an     *)
(* Integer.                                                                *)
(***************************************************************************)
C7_LenientHash ==
    Just("grad_req") /\ IsHash(raw) =>
        /\ pc # "raised" =>
             \A i \in 1..Len(obj.arguments) :
                 ~Holds(raw, obj.arguments[i]) => reqs_array[i] = 0
        /\ (\A i \in 1..Len(obj.arguments) :
               Holds(raw, obj.arguments[i]) =>
                   IsInteger(ValueUnder(raw, obj.arguments[i]))) =>
             pc # "raised" /\ Len(reqs_array) = Len(obj.arguments)

C7_Witness ==
    /\ Passed("grad_req") /\ IsHash(raw)
    /\ Len(obj.arguments) = 2
    /\ Holds(raw, obj.arguments[2]) /\ ~Holds(raw, obj.arguments[1])
    /\ reqs_array = <<0, 1>>

(***************************************************************************)
(* C8: on every exit of bind, returning or raising, no handle array that   *)
(* the call allocated is still allocated, and each was released once.      *)
(***************************************************************************)
C8_ScratchReleased ==
    pc \in {"raised", "done"} => \A b \in Buffers : heap[b] \in {"none", "freed"}

(***************************************************************************)
(* C9: type errors and native calls.                                       *)
(***************************************************************************)
NonTensorPresent(r) ==
    \/ IsArray(raw) /\ \E i \in 1..Len(raw.ary) : ~IsNDArray(raw.ary[i])
    \/ IsHash(raw) /\ NonTensorAt(r) # {}

\* the scan of the binding reaches an element that is not an NDArray: the
\* Array has the right length, or no name before the element is absent
\* from the Hash with missing not allowed
NonTensorReached(r) ==
    \/ /\ IsArray(raw) /\ Len(raw.ary) = Len(NamesOf(r))
       /\ \E i \in 1..Len(raw.ary) : ~IsNDArray(raw.ary[i])
    \/ /\ IsHash(raw)
       /\ \E i \in NonTensorAt(r) :
            AllowMissing(r) \/ \A j \in Absent(r) : j > i

\* C9 as claimed: a binding with a present element that is not an NDArray
\* makes the operation fail with a type error, no native call having been
\* made before
C9_TypeErrorBeforeAnyNativeCall ==
    \A r \in InputRoles :
        Just(r) /\ NonTensorPresent(r) =>
            pc = "raised" /\ err.kind = "TypeError" /\ calls = <<>>

\* C9 as amended: when the scan of a binding reaches an element that is not
\* an NDArray, bind raises TypeError; MXExecutorBindEX has not been called,
\* and the only native calls made before the error are the name-list
\* queries (MXSymbolListArguments, and for aux_states
\* MXSymbolListAuxiliaryStates too)
C9_TypeErrorBeforeNativeBind ==
    \A r \in InputRoles :
        Just(r) /\ NonTensorReached(r) =>
            /\ pc = "raised" /\ err.kind = "TypeError"
            /\ ~Called("MXExecutorBindEX")
            /\ calls = IF r = "aux_states"
                       THEN <<"MXSymbolListArguments", "MXSymbolListAuxiliaryStates">>
                       ELSE <<"MXSymbolListArguments">>

C9_Witness ==
    /\ Failed("args") /\ IsArray(raw)
    /\ Len(raw.ary) = 2 /\ IsNDArray(raw.ary[1]) /\ ~IsNDArray(raw.ary[2])
    /\ err.kind = "TypeError"
    /\ Called("MXSymbolListArguments")

(***************************************************************************)
(* C10: error precedence.  The steps run in the fixed order context check, *)
(* (list arguments,) args, args_grad, (list auxiliary states,) aux_states, *)
(* grad_req, group2ctx, (shared_exec,) native bind; the error raised comes *)
(* from a step no later than any step whose input is invalid; the native   *)
(* calls made are those of the steps executed; and once a step has raised, *)
(* nothing more happens.                                                   *)
(***************************************************************************)
NativeOf(step) ==
    IF step = "list_arguments" THEN <<"MXSymbolListArguments">>
    ELSE IF step = "list_auxiliary_states" THEN <<"MXSymbolListAuxiliaryStates">>
    ELSE IF step = "bind" THEN <<"MXExecutorBindEX">> ELSE <<>>

RECURSIVE CallsOf(_)
CallsOf(steps) ==
    IF steps = <<>> THEN <<>> ELSE NativeOf(Head(steps)) \o CallsOf(Tail(steps))

C10_InOrder ==
    /\ Len(trace) <= Len(Steps)
    /\ \A i \in 1..Len(trace) : trace[i] = Steps[i]
    /\ calls = CallsOf(trace)
    /\ pc = "raised" => \A t \in invalid : Index(trace[Len(trace)]) <= Index(t)
    /\ pc = "done" => invalid = {}

\* C10: the steps run in the fixed order, the error raised comes from the
\* earliest failing step, and nothing happens after a raise
C10_ErrorPrecedence ==
    /\ []C10_InOrder
    /\ [][pc = "raised" => UNCHANGED vars]_vars

\* a step has raised while the input of a later step is invalid too
C10_Witness ==
    /\ pc = "raised"
    /\ \E t \in invalid : Index(trace[Len(trace)]) < Index(t)

====
